---- MODULE Spec2Model ----
(***************************************************************************)
(* Model of the DQN learning pipeline of bevy-rapier-car-sim:              *)
(* src/src/nn/dqn.rs (dqn_system), src/src/nn/dqn_bevy.rs (resources,      *)
(* dqn_switch_system) and src/src/car.rs (car_start_system, spawn_car).    *)
(*                                                                         *)
(* Units.  Time is counted in quarter seconds (0.5 s = 2).  Cosines are    *)
(* f32 values kept as a sign bit and a magnitude in tenths, so that +0.0   *)
(* and -0.0 are distinct as they are for is_sign_positive/negative.        *)
(* Distances are in half metres (d / 5 in tenths = d in half metres).      *)
(* Rewards are scaled by RewardScale (reward -1 is -RewardScale).          *)
(* Epsilon is in hundredths (eps 1.0 = 100, min_eps 0.01 = 1).             *)
(* Networks are parameter versions: every optimizer step yields a new one. *)
(***************************************************************************)
EXTENDS Integers, Sequences, FiniteSets, TLC

VARIABLES
    seconds,          \* time.seconds_since_startup() of the latest frame
    use_brain,        \* config.use_brain
    decay,            \* params DECAY (fixed at construction)
    cars_count,       \* config.cars_count (fixed at construction)
    dqn,              \* DqnResource
    nets,             \* CarDqnResources.qn / .tqn
    cars,             \* live car entities: entity id -> Car + HID + CarDqnPrev
    nextEntity,       \* next fresh entity id handed out by commands.spawn()
    camera_follow,    \* camera_config.camera_follow (0: None)
    ev,               \* what the latest run of dqn_system did (observation of the run)
    rw                \* argument/result pair of the latest shape_reward evaluation

vars == <<seconds, use_brain, decay, cars_count, dqn, nets, cars, nextEntity, camera_follow, ev, rw>>

----------------------------------------------------------------------------
(* Bounds of the model. *)
MaxTime == 7
MaxDt == 2
MaxCars == 2
MaxStores == 5

(* How long a run is followed: the more cars, the shorter. *)
Horizon(n) == MaxTime - 3 * (n - 1)

(* Program constants. *)
RESPAWN_DELAY == 2
EPS_INIT == 100
MIN_EPS == 1

(* params.rs (not part of the sources at hand): small stand-ins. *)
STEP_DURATION == 1
BATCH_SIZE == 1
SYNC_INTERVAL_STEPS == 2
EPOCHS == 2
N_ACTIONS == 2
SPEED_LIMIT_MPS == 10
BUFFER_CAPACITY == 3
PERSIST_BATCH == 1

DecayValues == {33, 60}

RewardScale == 10 * SPEED_LIMIT_MPS

(* Entity names are sequences of words; ASSET_ROAD is one word. *)
ASSET_ROAD == "road"

(* dqn.rs 85: colliding_entity.contains(ASSET_ROAD) *)
NameContainsRoad(name) == \E i \in 1..Len(name) : name[i] = ASSET_ROAD

----------------------------------------------------------------------------
(* f32 cosines with a sign bit. *)
F32(neg, mag) == [neg |-> neg, mag |-> mag]
is_sign_positive(x) == ~x.neg
is_sign_negative(x) == x.neg
Val(x) == IF x.neg THEN -x.mag ELSE x.mag

(* A speed that is NaN (v.linvel.length() of a non-finite velocity) is      *)
(* encoded as a negative number: a length is never negative.               *)
NaNSpeed == 0 - 1
is_nan(speed) == speed < 0

(* dqn.rs 115: the sign test of the flip. *)
RewardFlipStrict(vel_cos, pos_cos) == Val(vel_cos) > 0 /\ Val(pos_cos) < 0

RewardFlip(vel_cos, pos_cos) ==
    is_sign_positive(vel_cos) /\ is_sign_negative(pos_cos)

(* dqn.rs 114: v.linvel.length() / SPEED_LIMIT_MPS * (vel_cos - d / 5.),   *)
(* times RewardScale, for a speed that is a number.                        *)
BaseReward(speed, vel_cos, d) == speed * (Val(vel_cos) - d)

(* dqn.rs 107-122: the reward closure; the result is scaled by RewardScale. *)
shape_reward_no_crash(crash, speed, vel_cos, pos_cos, d) ==
    IF is_nan(speed) THEN 0
    ELSE LET base == BaseReward(speed, vel_cos, d)
         IN  IF RewardFlip(vel_cos, pos_cos) THEN -base ELSE base

shape_reward(crash, speed, vel_cos, pos_cos, d) ==
    IF crash THEN -RewardScale
    ELSE IF is_nan(speed) THEN 0
    ELSE LET base == BaseReward(speed, vel_cos, d)
         IN  IF RewardFlip(vel_cos, pos_cos) THEN -base ELSE base

----------------------------------------------------------------------------
(* Observations.  dqn.rs 21-22, 124-134. *)
OBSERVATION_ZERO == <<0, 0, 0, 0>>

(* obs[0] = kmh / 100 (in thousandths: 36 per m/s), obs[1] = vel_cos,      *)
(* obs[2] = pos_cos, then the sensor inputs (one reading stands for all).  *)
Observe(k) ==
    <<(IF is_nan(k.speed) THEN NaNSpeed ELSE 36 * k.speed),
      Val(k.vel_cos), Val(k.pos_cos), k.sensor>>

(* dqn.rs 137: prev_obs.iter().all(|&x| x == 0.) *)
AllZero(obs) == \A i \in 1..Len(obs) : obs[i] = 0

(* What the simulation hands to one car in one frame: velocity, transform  *)
(* and centre line reduced to speed, the two cosines and the distance.     *)
(* A car at rest has a NaN velocity angle, coerced to 0: vel_cos = 1.      *)
Kinematics ==
    { [speed |-> 0,  vel_cos |-> F32(FALSE, 10), pos_cos |-> F32(FALSE, 10),
       d |-> 0, sensor |-> 0],
      [speed |-> 10, vel_cos |-> F32(FALSE, 5),  pos_cos |-> F32(TRUE, 5),
       d |-> 1, sensor |-> 5] }

(* CollidingEntities of the car's collider child, by entity name. *)
Contacts == { {<<"road", "segment">>}, {<<"road", "segment">>, <<"wall">>} }

FrameInputs == [contacts : Contacts, kin : Kinematics, action : 0..(N_ACTIONS - 1)]

(* dqn.rs 79-90: crash detection over the colliding entities. *)
CrashDetected(contacts) == \E name \in contacts : ~NameContainsRoad(name)

----------------------------------------------------------------------------
(* ReplayBuffer (replay.rs is not among the sources; modelled on the       *)
(* specification, section 4.2): a ring of BUFFER_CAPACITY transitions,     *)
(* oldest first, and the persistence cursor.                               *)
NewReplayBuffer == [items |-> <<>>, cursor |-> 0]

RbLen(rb) == Len(rb.items)

RbStoreDropNewest(rb, tr) ==
    IF Len(rb.items) < BUFFER_CAPACITY
    THEN [rb EXCEPT !.items = Append(rb.items, tr)]
    ELSE rb

RbStore(rb, tr) ==
    IF Len(rb.items) < BUFFER_CAPACITY
    THEN [rb EXCEPT !.items = Append(rb.items, tr)]
    ELSE [items |-> Append(Tail(rb.items), tr),
          cursor |-> IF rb.cursor > 0 THEN rb.cursor - 1 ELSE 0]

RbShouldPersist(rb) == Len(rb.items) - rb.cursor > PERSIST_BATCH

RbPersist(rb) == [rb EXCEPT !.cursor = Len(rb.items)]

(* util.rs map_action_to_car (not among the sources): the fixed table      *)
(* action -> (gas, brake, left, right).                                    *)
map_action_to_car(a) ==
    IF a = 0 THEN [gas |-> 1, brake |-> 0, left |-> 0, right |-> 0]
    ELSE [gas |-> 1, brake |-> 0, left |-> 1, right |-> 0]

----------------------------------------------------------------------------
(* CarDqnPrev::new (car.rs 320): the component's definition is not among  *)
(* the sources; modelled on the specification, section 3 and 9 (carry      *)
(* state created on spawn), with the all-zero fields of                    *)
(* CarDqnResource::new (dqn_bevy.rs 14-22).                                *)
NewCarDqnPrevStale ==
    [prev_obs |-> <<1, 1, 1, 1>>, prev_action |-> 0, prev_reward |-> 0]

NewCarDqnPrev ==
    [prev_obs |-> OBSERVATION_ZERO, prev_action |-> 0, prev_reward |-> 0]

(* car.rs 315-370: the components spawn_car gives a car entity. *)
(* prev_src is not a field of the code: it names the entity whose          *)
(* observation prev_obs holds (0: none yet).                               *)
NewCar(index, is_hid) ==
    [index |-> index, hid |-> is_hid,
     gas |-> 0, brake |-> 0, steering |-> 0,
     prev_obs |-> NewCarDqnPrev.prev_obs,
     prev_action |-> NewCarDqnPrev.prev_action,
     prev_reward |-> NewCarDqnPrev.prev_reward,
     prev_src |-> 0]

(* car.rs 153-167: car_start_system spawns cars 0..cars_count-1, car 0 HID. *)
StartCars(n) ==
    [e \in 1..n |-> NewCar(e - 1, e - 1 = 0)]

(* dqn_bevy.rs 59-76: DqnResource::new (with the pending-respawn record).  *)
NewDqnResource ==
    [seconds |-> 0, step |-> 0, crashes |-> 0, rb |-> NewReplayBuffer,
     eps |-> EPS_INIT, min_eps |-> MIN_EPS,
     respawn_at |-> 0, respawn_is_hid |-> FALSE, respawn_index |-> 0]

(* dqn_bevy.rs 29-39: both networks start as the same parameters. *)
NewNets == [qn |-> 0, tqn |-> 0]

NoEvent == [kind |-> "start", should_act |-> FALSE, log |-> <<>>,
            trace |-> <<>>, touching |-> {}]
NoReward == [crash |-> FALSE, speed |-> 0, vel_cos |-> F32(FALSE, 0),
             pos_cos |-> F32(FALSE, 0), d |-> 0, reward |-> 0]

----------------------------------------------------------------------------
(* The conditions of dqn_system, one operator per test of the code. *)

(* dqn.rs 48 *)
RespawnDue(respawn_at, secs) == respawn_at > 0 /\ secs > respawn_at

(* dqn.rs 71 *)
ShouldActAtOrAfter(secs, dqn_seconds) == secs >= dqn_seconds

ShouldAct(secs, dqn_seconds) == secs > dqn_seconds

(* dqn.rs 137 *)
ShouldStoreOnActOnly(brain, should_act, crash, prev_obs) ==
    brain /\ should_act /\ ~AllZero(prev_obs)

ShouldStoreBrainOff(brain, should_act, crash, prev_obs) ==
    (should_act \/ crash) /\ ~AllZero(prev_obs)

ShouldStore(brain, should_act, crash, prev_obs) ==
    brain /\ (should_act \/ crash) /\ ~AllZero(prev_obs)

(* dqn.rs 138: the done flag handed to store *)
TransitionDoneNever(should_act, crash) == FALSE

TransitionDone(should_act, crash) == crash

(* dqn.rs 145 *)
ShouldCarry(should_act, crash) == should_act /\ ~crash

(* dqn.rs 159 *)
ReturnsEarly(brain, should_act, crash) == ~brain \/ ~should_act \/ crash

(* dqn.rs 163-166 *)
ShouldTrainAnyCar(is_hid, len) == len >= BATCH_SIZE

ShouldTrainUnderfilled(is_hid, len) == is_hid

ShouldTrain(is_hid, len) == is_hid /\ ~(len < BATCH_SIZE)

(* dqn.rs 194 *)
ShouldSync(step, len) ==
    step % SYNC_INTERVAL_STEPS = 0 /\ len > BATCH_SIZE * 2

(* dqn.rs 198-202 *)
DecayEps(eps, min_eps, d) ==
    IF eps <= min_eps THEN min_eps ELSE eps - d

(* dqn.rs 150-157: the crash block, on the resource. *)
CrashRecordLate(d, secs, car) ==
    [d EXCEPT !.crashes = @ + 1,
              !.respawn_at = secs + RESPAWN_DELAY + 1,
              !.respawn_is_hid = car.hid,
              !.respawn_index = car.index]

CrashRecord(d, secs, car) ==
    [d EXCEPT !.crashes = @ + 1,
              !.respawn_at = secs + RESPAWN_DELAY,
              !.respawn_is_hid = car.hid,
              !.respawn_index = car.index]

(* dqn.rs 172-197: EPOCHS optimizer steps on qn, then the hard sync. *)
TrainSyncFirst(n, syncs) ==
    [qn |-> n.qn + EPOCHS, tqn |-> IF syncs THEN n.qn ELSE n.tqn]

TrainTargetFollows(n, syncs) ==
    [qn |-> n.qn + EPOCHS, tqn |-> n.qn + EPOCHS]

Train(n, syncs) ==
    LET qn1 == n.qn + EPOCHS
    IN  [qn |-> qn1, tqn |-> IF syncs THEN qn1 ELSE n.tqn]

(* dqn.rs 206-209 *)
WriteControls(car, action) ==
    LET c == map_action_to_car(action)
    IN  [car EXCEPT !.gas = c.gas, !.brake = c.brake,
                    !.steering = (-c.left) + c.right]

(* dqn.rs 138-141 *)
StoreAndPersist(rb, tr) ==
    LET rb1 == RbStore(rb, tr)
    IN  IF RbShouldPersist(rb1) THEN RbPersist(rb1) ELSE rb1

----------------------------------------------------------------------------
(* dqn.rs 92-144: the body builds the car's observation and reward, then  *)
(* calls act for it.                                                       *)
CarEventsActFirst(c) == << <<"act", c>>, <<"observe", c>> >>

CarEvents(c) == << <<"observe", c>>, <<"act", c>> >>

(* dqn.rs 77-210: the body of the loop for car entity c.  st is the state  *)
(* the loop works on; returned is set when the body ends in `return`.      *)
CarStep(st, c, inp, should_act, secs) ==
    LET car    == st.cars[c]
        crash  == CrashDetected(inp.contacts)
        k      == inp.kin
        reward == shape_reward(crash, k.speed, k.vel_cos, k.pos_cos, k.d)
        obs    == Observe(k)
        stores == ShouldStore(st.use_brain, should_act, crash, car.prev_obs)
        tr     == [obs |-> car.prev_obs, action |-> car.prev_action,
                   reward |-> reward, next_obs |-> obs,
                   done |-> TransitionDone(should_act, crash)]
        rb1    == IF stores THEN StoreAndPersist(st.dqn.rb, tr) ELSE st.dqn.rb
        action == inp.action
        car1   == IF ShouldCarry(should_act, crash)
                  THEN [car EXCEPT !.prev_obs = obs, !.prev_action = action,
                                   !.prev_reward = reward, !.prev_src = c]
                  ELSE car
        dqn1   == [st.dqn EXCEPT !.rb = rb1]
        dqn2   == IF crash THEN CrashRecord(dqn1, secs, car) ELSE dqn1
        brain2 == IF crash THEN FALSE ELSE st.use_brain
        early  == ReturnsEarly(brain2, should_act, crash)
        trains == ~early /\ ShouldTrain(car.hid, RbLen(rb1))
        syncs  == trains /\ ShouldSync(dqn2.step, RbLen(rb1))
        dqn3   == IF trains
                  THEN [dqn2 EXCEPT !.eps = DecayEps(dqn2.eps, dqn2.min_eps, decay)]
                  ELSE dqn2
        car2   == IF early THEN car1 ELSE WriteControls(car1, action)
    IN  [dqn       |-> dqn3,
         nets      |-> IF trains THEN Train(st.nets, syncs) ELSE st.nets,
         cars      |-> [st.cars EXCEPT ![c] = car2],
         use_brain |-> brain2,
         despawned |-> IF crash THEN st.despawned \cup {c} ELSE st.despawned,
         returned  |-> early,
         trace     |-> st.trace \o CarEvents(c),
         log       |-> Append(st.log,
                        [car |-> c, hid |-> car.hid, brain |-> st.use_brain,
                         crashed |-> crash /\ dqn2.crashes = st.dqn.crashes + 1,
                         stored |-> stores, src |-> car.prev_src,
                         carried |-> ShouldCarry(should_act, crash),
                         trained |-> trains, synced |-> syncs,
                         len |-> IF trains THEN RbLen(rb1) ELSE 0,
                         wrote |-> ~early])]

(* dqn.rs 77: the cars are visited in the query's order; a `return` in the *)
(* body ends the system, so the cars after it are not visited.  The result *)
(* is the set of states the loop can end in, over the inputs of the cars   *)
(* it visits.                                                              *)
RECURSIVE RunLoop(_, _, _, _, _, _)
RunLoop(order, i, st, touch, should_act, secs) ==
    IF i > Len(order) \/ st.returned THEN {st}
    ELSE UNION { RunLoop(order, i + 1,
                         CarStep(st, order[i], inp, should_act, secs),
                         touch, should_act, secs) :
                 inp \in { x \in FrameInputs : x.contacts = touch[order[i]] } }

Orders(S) ==
    { o \in [1..Cardinality(S) -> S] :
        \A i, j \in 1..Cardinality(S) : o[i] = o[j] => i = j }

Restrict(f, S) == [x \in S |-> f[x]]

----------------------------------------------------------------------------
Init ==
    /\ seconds = 0
    /\ use_brain \in BOOLEAN
    /\ decay \in DecayValues
    /\ dqn = NewDqnResource
    /\ nets = NewNets
    /\ cars_count \in 1..MaxCars
    /\ cars = StartCars(cars_count)
    /\ nextEntity = cars_count + 1
    /\ camera_follow = 0
    /\ ev = NoEvent
    /\ rw = NoReward

(* dqn.rs 47-70: a frame on which the pending respawn is due. *)
Respawn(secs) ==
    /\ RespawnDue(dqn.respawn_at, secs)
    /\ seconds' = secs
    /\ cars' = [e \in DOMAIN cars \cup {nextEntity} |->
                  IF e = nextEntity
                  THEN NewCar(dqn.respawn_index, dqn.respawn_is_hid)
                  ELSE cars[e]]
    /\ nextEntity' = nextEntity + 1
    /\ camera_follow' = nextEntity
    /\ dqn' = [dqn EXCEPT !.respawn_at = 0, !.respawn_is_hid = FALSE,
                          !.respawn_index = 0]
    /\ use_brain' = TRUE
    /\ ev' = [kind |-> "respawn", should_act |-> FALSE, log |-> <<>>,
              trace |-> <<>>, touching |-> {}]
    /\ UNCHANGED <<decay, cars_count, nets, rw>>

(* dqn.rs 71-211: every other frame. *)
Frame(secs) ==
    /\ ~RespawnDue(dqn.respawn_at, secs)
    /\ \E order \in Orders(DOMAIN cars), touch \in [DOMAIN cars -> Contacts] :
         LET should_act == ShouldAct(secs, dqn.seconds)
             dqn0 == IF should_act
                     THEN [dqn EXCEPT !.seconds = secs + STEP_DURATION,
                                      !.step = @ + 1]
                     ELSE dqn
             st0 == [dqn |-> dqn0, nets |-> nets, cars |-> cars,
                     use_brain |-> use_brain, despawned |-> {},
                     returned |-> FALSE, log |-> <<>>, trace |-> <<>>]
         IN  \E st \in RunLoop(order, 1, st0, touch, should_act, secs) :
             /\ seconds' = secs
             /\ dqn' = st.dqn
             /\ nets' = st.nets
             /\ use_brain' = st.use_brain
             /\ cars' = Restrict(st.cars, DOMAIN cars \ st.despawned)
             /\ ev' = [kind |-> "frame", should_act |-> should_act, log |-> st.log,
                       trace |-> st.trace,
                       touching |-> { c \in DOMAIN cars : CrashDetected(touch[c]) }]
    /\ UNCHANGED <<decay, cars_count, nextEntity, camera_follow, rw>>

(* The times the next frame can have. *)
NextSeconds == { secs \in (seconds + 1)..(seconds + MaxDt) : secs <= Horizon(cars_count) }

(* dqn_system, run once per frame at the frame's time. *)
DqnSystemRespawn == \E secs \in NextSeconds : Respawn(secs)

DqnSystemFrame == \E secs \in NextSeconds : Frame(secs)

DqnSystem == DqnSystemRespawn \/ DqnSystemFrame

(* dqn_bevy.rs 82-86: key N pressed. *)
DqnSwitchSystem ==
    /\ use_brain' = ~use_brain
    /\ UNCHANGED <<seconds, decay, cars_count, dqn, nets, cars, nextEntity,
                   camera_follow, ev, rw>>

Next == DqnSystem \/ DqnSwitchSystem

Spec == Init /\ [][Next]_vars

----------------------------------------------------------------------------
(* shape_reward on its own: the closure applied to arguments drawn from    *)
(* the f32 values it can be handed (signed zeros and a NaN speed included). *)
CosValues == { F32(neg, mag) : neg \in BOOLEAN, mag \in {0, 5, 10} }
SpeedValues == {NaNSpeed, 0, 5, 10}
DistValues == {0, 1, 12}

InitReward ==
    /\ seconds = 0
    /\ use_brain = TRUE
    /\ decay \in DecayValues
    /\ cars_count = 1
    /\ dqn = NewDqnResource
    /\ nets = NewNets
    /\ cars = StartCars(1)
    /\ nextEntity = 2
    /\ camera_follow = 0
    /\ ev = NoEvent
    /\ rw = NoReward

EvalReward ==
    /\ \E crash \in BOOLEAN, speed \in SpeedValues, vel_cos \in CosValues,
          pos_cos \in CosValues, d \in DistValues :
         rw' = [crash |-> crash, speed |-> speed, vel_cos |-> vel_cos,
                pos_cos |-> pos_cos, d |-> d,
                reward |-> shape_reward(crash, speed, vel_cos, pos_cos, d)]
    /\ UNCHANGED <<seconds, use_brain, decay, cars_count, dqn, nets, cars,
                   nextEntity, camera_follow, ev>>

SpecReward == InitReward /\ [][EvalReward]_vars

----------------------------------------------------------------------------
(* Claims about shape_reward, under SpecReward.                            *)

(* C9: the reward of an agent that crashed this tick is exactly -1         *)
(* whatever its speed, alignment and distance; the reward of a non-crashed *)
(* agent whose speed is zero is exactly 0.                                 *)
C9_CrashAndRestReward ==
    /\ rw.crash => rw.reward = -RewardScale
    /\ (~rw.crash /\ rw.speed = 0) => rw.reward = 0

(* C9 witness: a crash evaluated for a moving, well aligned agent far from *)
(* the centre line, whose other reward terms are not -1.                   *)
C9_Witness ==
    /\ rw.crash /\ rw.speed = 10 /\ rw.d = 12
    /\ rw.vel_cos = F32(FALSE, 10) /\ rw.pos_cos = F32(FALSE, 10)
    /\ rw.reward = -RewardScale

(* The reward formula of the specification for a finite speed, with the    *)
(* flip decided by `flip`.                                                 *)
FormulaReward(flip) ==
    LET base == rw.speed * (Val(rw.vel_cos) - rw.d)
    IN  IF flip THEN -base ELSE base

----------------------------------------------------------------------------
(* Claims about dqn_system, under Spec.                                    *)

(* A step that is a run of the loop of dqn_system (no respawn was due). *)
FrameStep == seconds' > seconds /\ ev'.kind = "frame"

(* The cars the latest frame visited, by position in the visiting order. *)
Visited == IF ev.kind = "frame" THEN DOMAIN ev.log ELSE {}

(* The transition the latest frame stored for its i-th visited car: the    *)
(* frame's stores are the newest items of the buffer, in visiting order.   *)
StoredItem(i) ==
    LET total == Cardinality({j \in DOMAIN ev.log : ev.log[j].stored})
        upto  == Cardinality({j \in 1..i : ev.log[j].stored})
    IN  dqn.rb.items[RbLen(dqn.rb) - total + upto]

(* C1 as claimed: eps never increases from one step to the next and is     *)
(* never below min_eps, for every DECAY > 0.                               *)
C1_EpsMonotoneAboveFloor ==
    [](dqn.eps >= dqn.min_eps) /\ [][dqn'.eps <= dqn.eps]_vars

(* C2: a crash processed at time t schedules the respawn at t + 0.5 and is *)
(* the only crash of its frame; the crashed agent has no controls written  *)
(* and triggers no training on that frame, is despawned by it, and no      *)
(* later frame visits a despawned entity (a respawn makes a fresh one).    *)
C2_CrashSchedulesRespawn ==
    [][ /\ FrameStep =>
              \A i \in DOMAIN ev'.log :
                  /\ ev'.log[i].car \in DOMAIN cars
                  /\ ev'.log[i].crashed =>
                        /\ dqn'.respawn_at = seconds' + RESPAWN_DELAY
                        /\ dqn'.crashes = dqn.crashes + 1
                        /\ \A j \in DOMAIN ev'.log : ev'.log[j].crashed => j = i
                        /\ ~ev'.log[i].wrote /\ ~ev'.log[i].trained
                        /\ ~ev'.log[i].carried
                        /\ ev'.log[i].car \notin DOMAIN cars'
        /\ DOMAIN cars' \subseteq DOMAIN cars \cup {nextEntity}
        /\ nextEntity \notin DOMAIN cars
        /\ nextEntity' >= nextEntity ]_vars

(* C2 witness: a frame that processed a crash, with its respawn pending. *)
C2_Witness ==
    /\ \E i \in Visited : ev.log[i].crashed /\ ev.log[i].stored
    /\ dqn.respawn_at = seconds + RESPAWN_DELAY

(* C3 as claimed: every crashed agent returns, so each track index (and    *)
(* the HID role) belongs to a live car or to the pending-respawn record.   *)
C3_EveryCrashRespawns ==
    /\ { cars[e].index : e \in DOMAIN cars }
         \cup (IF dqn.respawn_at > 0 THEN {dqn.respawn_index} ELSE {})
       = 0..(cars_count - 1)
    /\ \/ \E e \in DOMAIN cars : cars[e].hid
       \/ dqn.respawn_at > 0 /\ dqn.respawn_is_hid

(* C4 as claimed: while a respawn is pending use_brain is false, whatever  *)
(* dqn_switch_system does.                                                 *)
C4_BrainOffWhilePending == dqn.respawn_at > 0 => ~use_brain

(* C4 amended: the frame that processes a crash leaves use_brain false; no *)
(* frame before the respawn sets it true (only dqn_switch_system does);    *)
(* and a frame that starts with use_brain false stores no transition,      *)
(* carries out no training and writes no agent's controls.                 *)
C4_BrainOffUnlessSwitched ==
    [][ FrameStep =>
          /\ (\E i \in DOMAIN ev'.log : ev'.log[i].crashed) => ~use_brain'
          /\ (dqn'.respawn_at > 0 /\ ~use_brain) => ~use_brain'
          /\ ~use_brain =>
                /\ dqn'.rb = dqn.rb /\ nets' = nets
                /\ \A i \in DOMAIN ev'.log :
                      ~ev'.log[i].stored /\ ~ev'.log[i].wrote /\ ~ev'.log[i].trained
                /\ \A e \in DOMAIN cars' :
                      /\ cars'[e].gas = cars[e].gas
                      /\ cars'[e].brake = cars[e].brake
                      /\ cars'[e].steering = cars[e].steering ]_vars

(* C4 witness: a decision frame run while a respawn is pending and         *)
(* use_brain is false, visiting a car that carries an observation.         *)
C4_Witness ==
    /\ dqn.respawn_at > 0 /\ dqn.respawn_at # seconds + RESPAWN_DELAY
    /\ ~use_brain /\ ev.kind = "frame" /\ ev.should_act
    /\ \E i \in Visited :
          /\ ~ev.log[i].brain /\ ~ev.log[i].crashed
          /\ ev.log[i].car \in DOMAIN cars
          /\ ~AllZero(cars[ev.log[i].car].prev_obs)

(* C5: training runs only for the HID agent, with use_brain true, on a     *)
(* decision tick, for an agent that did not crash this tick, with at least *)
(* BATCH_SIZE transitions in the buffer; and at most once per frame.       *)
C5_TrainingGuard ==
    /\ \A i \in Visited :
          ev.log[i].trained =>
              /\ ev.log[i].hid /\ ev.log[i].brain /\ ev.should_act
              /\ ~ev.log[i].crashed /\ ev.log[i].len >= BATCH_SIZE
    /\ Cardinality({i \in Visited : ev.log[i].trained}) <= 1

(* C5 witness: a frame of two visited cars on which the HID agent trained. *)
C5_Witness ==
    /\ Cardinality(Visited) = 2
    /\ \E i \in Visited : ev.log[i].trained

(* C6 as claimed: a training tick whose step is a multiple of              *)
(* SYNC_INTERVAL_STEPS with at least 2 * BATCH_SIZE transitions ends with  *)
(* target = online.                                                        *)
C6_SyncAtLeastTwoBatches ==
    \A i \in Visited :
        (/\ ev.log[i].trained
         /\ dqn.step % SYNC_INTERVAL_STEPS = 0
         /\ ev.log[i].len >= 2 * BATCH_SIZE) => nets.tqn = nets.qn

(* C6 amended: ... with more than 2 * BATCH_SIZE transitions ends with     *)
(* target = online.                                                        *)
C6_SyncAboveTwoBatches ==
    \A i \in Visited :
        (/\ ev.log[i].trained
         /\ dqn.step % SYNC_INTERVAL_STEPS = 0
         /\ ev.log[i].len > 2 * BATCH_SIZE) => nets.tqn = nets.qn

(* C6 witness: a training tick that synced after earlier optimizer steps. *)
C6_Witness ==
    /\ \E i \in Visited : ev.log[i].trained /\ ev.log[i].synced
    /\ nets.qn > EPOCHS /\ nets.tqn = nets.qn

(* C7: a transition stored by a frame has done = true exactly when the     *)
(* agent it was stored for crashed on that frame; every buffered           *)
(* transition with done = true has reward -1.                              *)
C7_DoneIffCrash ==
    /\ \A i \in Visited :
          ev.log[i].stored => (StoredItem(i).done <=> ev.log[i].crashed)
    /\ \A k \in DOMAIN dqn.rb.items :
          dqn.rb.items[k].done => dqn.rb.items[k].reward = -RewardScale

(* C7 witness: a frame that stored a transition for a car that went on and *)
(* one for a car that crashed.                                             *)
C7_Witness ==
    /\ \E i \in Visited : ev.log[i].stored /\ ev.log[i].crashed /\ StoredItem(i).done
    /\ \E i \in Visited : ev.log[i].stored /\ ~ev.log[i].crashed /\ ~StoredItem(i).done

(* The single-agent episode up to its first crash, one frame of it. *)
EpisodeStep ==
    /\ FrameStep /\ cars_count = 1 /\ use_brain /\ dqn.crashes = 0
    /\ Len(ev'.log) = 1 /\ RbLen(dqn.rb) < BUFFER_CAPACITY

(* C8 as claimed: in a single-agent episode with training enabled every    *)
(* decision tick up to and including the crash adds exactly one transition,*)
(* the crash tick's transition has reward -1 and the crash counter is 1.   *)
C8_EveryDecisionTickStores ==
    [][ EpisodeStep =>
          /\ (ev'.should_act \/ ev'.log[1].crashed) =>
                RbLen(dqn'.rb) = RbLen(dqn.rb) + 1
          /\ ev'.log[1].crashed =>
                /\ dqn'.crashes = 1
                /\ dqn'.rb.items[RbLen(dqn'.rb)].reward = -RewardScale ]_vars

(* C8 amended: every decision tick on which the agent carries a previous   *)
(* observation (every one after its first), and the crash tick if it       *)
(* carries one, adds exactly one transition; a tick of an agent that       *)
(* carries none, and a tick that is neither, adds nothing; the transition  *)
(* of the crash tick has reward -1 and the crash counter is 1 after it.    *)
C8_DecisionTicksWithCarryStore ==
    [][ EpisodeStep =>
          LET c == ev'.log[1].car
              due == ev'.should_act \/ ev'.log[1].crashed
          IN  /\ (due /\ ~AllZero(cars[c].prev_obs)) =>
                    /\ RbLen(dqn'.rb) = RbLen(dqn.rb) + 1
                    /\ ev'.log[1].crashed =>
                          dqn'.rb.items[RbLen(dqn'.rb)].reward = -RewardScale
              /\ (~due \/ AllZero(cars[c].prev_obs)) => dqn'.rb = dqn.rb
              /\ ev'.log[1].crashed => dqn'.crashes = 1
              /\ ~ev'.log[1].crashed => dqn'.crashes = 0 ]_vars

(* C8 witness: the crash of the single agent on a frame that is not a      *)
(* decision tick, with its transition stored.                              *)
C8_Witness ==
    /\ cars_count = 1 /\ dqn.crashes = 1 /\ ev.kind = "frame" /\ ~ev.should_act
    /\ Len(ev.log) = 1 /\ ev.log[1].crashed /\ ev.log[1].stored
    /\ dqn.rb.items[RbLen(dqn.rb)].reward = -RewardScale

-----------------------------------------------------------------------------
(* The replay buffer driven on its own: every sequence of at most          *)
(* MaxStores store calls, made the way dqn.rs 138-141 makes them.  ev.log  *)
(* keeps every transition handed to store, in call order.                  *)
StoreInputs ==
    { [obs |-> Observe(k), action |-> 0, reward |-> 0,
       next_obs |-> Observe(k), done |-> FALSE] : k \in Kinematics }
    \cup { [obs |-> Observe(k), action |-> 1, reward |-> -RewardScale,
            next_obs |-> Observe(k), done |-> TRUE] : k \in Kinematics }

InitBuffer == InitReward

StoreCall ==
    /\ Len(ev.log) < MaxStores
    /\ \E tr \in StoreInputs :
         /\ dqn' = [dqn EXCEPT !.rb = StoreAndPersist(dqn.rb, tr)]
         /\ ev' = [ev EXCEPT !.kind = "store", !.log = Append(ev.log, tr)]
    /\ UNCHANGED <<seconds, use_brain, decay, cars_count, nets, cars,
                   nextEntity, camera_follow, rw>>

SpecBuffer == InitBuffer /\ [][StoreCall]_vars

(* The last n elements of a sequence. *)
LastN(s, n) == SubSeq(s, Len(s) - n + 1, Len(s))

(* C11: after every sequence of store calls, also one longer than the      *)
(* capacity, the buffer holds at most BUFFER_CAPACITY transitions and they *)
(* are exactly the newest ones in call order (the oldest are evicted       *)
(* first); every store call is accepted.  Under SpecBuffer.                *)
C11_RingKeepsNewest ==
    LET n == Len(ev.log)
        k == IF n < BUFFER_CAPACITY THEN n ELSE BUFFER_CAPACITY
    IN  /\ RbLen(dqn.rb) = k
        /\ RbLen(dqn.rb) <= BUFFER_CAPACITY
        /\ dqn.rb.items = LastN(ev.log, k)
        /\ dqn.rb.cursor \in 0..k

C11_Witness ==
    /\ ev.kind = "store" /\ Len(ev.log) = BUFFER_CAPACITY + 2
    /\ RbLen(dqn.rb) = BUFFER_CAPACITY
    /\ ev.log[1] # ev.log[BUFFER_CAPACITY + 2]
    /\ dqn.rb.items[1] = ev.log[Len(ev.log) - BUFFER_CAPACITY + 1]
    /\ dqn.rb.items[1] # ev.log[1]

-----------------------------------------------------------------------------
(* C12 as claimed: within one run of the loop no act call precedes the     *)
(* construction of another agent's observation and reward.                 *)
C12_AllObservedBeforeAnyAct ==
    \A i, j \in DOMAIN ev.trace :
        (i < j /\ ev.trace[i][1] = "act") => ev.trace[j][1] # "observe"

(* C12: the loop handles the visited agents one after another; for each    *)
(* it builds that agent's observation and reward and then calls act for    *)
(* that same agent, before it turns to the next agent.                     *)
C12_OwnObservationBeforeAct ==
    /\ Len(ev.trace) = 2 * Len(ev.log)
    /\ \A i \in DOMAIN ev.log :
          /\ ev.trace[2 * i - 1] = <<"observe", ev.log[i].car>>
          /\ ev.trace[2 * i] = <<"act", ev.log[i].car>>
    /\ \A i, j \in DOMAIN ev.log : i # j => ev.log[i].car # ev.log[j].car

C12_Witness ==
    /\ ev.kind = "frame" /\ Len(ev.log) = 2
    /\ ev.trace[2] = <<"act", ev.log[1].car>>
    /\ ev.trace[3] = <<"observe", ev.log[2].car>>

-----------------------------------------------------------------------------
(* Some car the latest frame visited trained / trained and synced. *)
SomeTrained(e) == \E i \in DOMAIN e.log : e.log[i].trained

SomeSynced(e) == \E i \in DOMAIN e.log : e.log[i].trained /\ e.log[i].synced

(* C13: the target network changes only in a frame whose training did the  *)
(* hard sync, and then it equals the online network; training without the  *)
(* sync changes the online network only; a frame without training, a       *)
(* respawn and the key toggle change neither network.                      *)
C13_TargetChangesOnlyBySync ==
    [][ /\ nets'.tqn # nets.tqn =>
              FrameStep /\ SomeSynced(ev') /\ nets'.tqn = nets'.qn
        /\ nets'.qn # nets.qn => FrameStep /\ SomeTrained(ev')
        /\ (FrameStep /\ SomeTrained(ev') /\ ~SomeSynced(ev')) =>
              nets'.tqn = nets.tqn /\ nets'.qn = nets.qn + EPOCHS
        /\ ~FrameStep => nets' = nets ]_vars

C13_Witness ==
    /\ ev.kind = "frame" /\ SomeTrained(ev) /\ ~SomeSynced(ev)
    /\ nets.qn > nets.tqn
    /\ \E i \in DOMAIN ev.log : ev.log[i].stored

(* The controls of car c are the ones map_action_to_car gives action a. *)
ControlsAre(car, a) ==
    LET m == map_action_to_car(a)
    IN  car.gas = m.gas /\ car.brake = m.brake
        /\ car.steering = (-m.left) + m.right

(* C14: a decision tick that ends with fewer than BATCH_SIZE transitions   *)
(* in the buffer trains nothing: both networks and eps are as before, and  *)
(* every agent visited with use_brain on and not crashing has the controls *)
(* of the action selected for it on that tick.                             *)
C14_UnderfilledSkipsTraining ==
    [][ (FrameStep /\ ev'.should_act /\ RbLen(dqn'.rb) < BATCH_SIZE) =>
          /\ nets' = nets /\ dqn'.eps = dqn.eps
          /\ ~SomeTrained(ev')
          /\ \A i \in DOMAIN ev'.log :
                LET e == ev'.log[i]
                IN  (e.brain /\ ~e.crashed) =>
                       /\ e.wrote /\ e.carried
                       /\ ControlsAre(cars'[e.car], cars'[e.car].prev_action) ]_vars

C14_Witness ==
    /\ ev.kind = "frame" /\ ev.should_act /\ RbLen(dqn.rb) < BATCH_SIZE
    /\ \E i \in DOMAIN ev.log :
          /\ ev.log[i].hid /\ ev.log[i].wrote /\ ~ev.log[i].trained
          /\ cars[ev.log[i].car].prev_action = 1
          /\ cars[ev.log[i].car].steering = -1

-----------------------------------------------------------------------------
(* C15 as claimed: in every run of the loop each car in contact with an    *)
(* entity that is not road is visited and crashes in that run, wherever it *)
(* stands in the visiting order, and a car touching road only does not.    *)
C15_EveryContactCrashes ==
    ev.kind = "frame" =>
        /\ \A c \in ev.touching :
              \E i \in DOMAIN ev.log : ev.log[i].car = c /\ ev.log[i].crashed
        /\ \A i \in DOMAIN ev.log :
              ev.log[i].crashed => ev.log[i].car \in ev.touching

(* C16 as claimed: the cars crashed and not yet spawned again are never    *)
(* more than one.                                                          *)
C16_AtMostOneAwaitingRespawn ==
    cars_count - Cardinality(DOMAIN cars) <= 1

(* C18 as claimed: the HID cars alive plus the pending respawn marked HID  *)
(* are exactly one.                                                        *)
C18_ExactlyOneHid ==
    Cardinality({ c \in DOMAIN cars : cars[c].hid })
      + (IF dqn.respawn_at > 0 /\ dqn.respawn_is_hid THEN 1 ELSE 0) = 1

-----------------------------------------------------------------------------
(* C17: a car entity starts with an all-zero carry state, on the first     *)
(* spawn and on a respawn; the carry state a live car holds is its own     *)
(* (an observation of that same entity), a car that has carried nothing    *)
(* stores nothing, and every transition stored pairs a carried observation *)
(* of the visited entity with the new observation of that same entity; the *)
(* carry state of a despawned car is gone with it.                         *)
C17_CarryStateIsPerInstance ==
    [][ /\ \A c \in DOMAIN cars' :
              /\ c \notin DOMAIN cars =>
                    AllZero(cars'[c].prev_obs) /\ cars'[c].prev_src = 0
              /\ cars'[c].prev_src \in {0, c}
              /\ cars'[c].prev_src = 0 <=> AllZero(cars'[c].prev_obs)
        /\ FrameStep =>
              \A i \in DOMAIN ev'.log :
                 LET e == ev'.log[i]
                 IN  /\ e.car \in DOMAIN cars
                     /\ e.src = cars[e.car].prev_src
                     /\ e.stored => e.src = e.car
                     /\ e.src = 0 => ~e.stored
                     /\ e.crashed => e.car \notin DOMAIN cars'
        /\ (FrameStep /\ Len(ev'.log) = 1 /\ ev'.log[1].stored) =>
              LET tr == dqn'.rb.items[RbLen(dqn'.rb)]
                  c  == ev'.log[1].car
              IN  /\ tr.obs = cars[c].prev_obs /\ tr.action = cars[c].prev_action
                  /\ ev'.log[1].carried => tr.next_obs = cars'[c].prev_obs ]_vars

(* A respawned car on its first decision tick: visited with use_brain on,  *)
(* nothing stored, its first observation carried.                          *)
C17_Witness ==
    /\ ev.kind = "frame" /\ ev.should_act /\ dqn.crashes > 0
    /\ \E i \in DOMAIN ev.log :
          /\ ev.log[i].car > cars_count /\ ev.log[i].brain
          /\ ev.log[i].src = 0 /\ ~ev.log[i].stored /\ ev.log[i].carried

-----------------------------------------------------------------------------
(* C19 as claimed: the action of every transition stored is the one whose  *)
(* controls the car got on the tick the transition's observation was       *)
(* taken: when a car stores, the controls it has had since that tick are   *)
(* those of its carried action.                                            *)
C19_StoredActionWasApplied ==
    [][ FrameStep =>
          \A i \in DOMAIN ev'.log :
             ev'.log[i].stored =>
                ControlsAre(cars[ev'.log[i].car],
                            cars[ev'.log[i].car].prev_action) ]_vars

(* A run of dqn_system: it alone advances the clock. *)
SystemStep == seconds' > seconds

StepAndScheduleUnchanged ==
    dqn'.step = dqn.step /\ dqn'.seconds = dqn.seconds

(* C20 as claimed: every run of dqn_system whose time exceeds the next     *)
(* decision time adds one to step and sets the next decision time to now + *)
(* STEP_DURATION, every other run leaves both; a run that performs a       *)
(* respawn leaves both and visits no car.                                  *)
C20_StepOnEveryDueTick ==
    [][ SystemStep =>
          /\ IF seconds' > dqn.seconds
             THEN /\ dqn'.step = dqn.step + 1
                  /\ dqn'.seconds = seconds' + STEP_DURATION
             ELSE StepAndScheduleUnchanged
          /\ ev'.kind = "respawn" =>
                StepAndScheduleUnchanged /\ ev'.log = <<>> ]_vars

(* C20: a run of dqn_system that performs no respawn and whose time        *)
(* exceeds the next decision time adds one to step and sets the next       *)
(* decision time to now + STEP_DURATION, so it is more than STEP_DURATION  *)
(* after the decision tick before it; a run that performs no respawn and   *)
(* is not due leaves both; a run that performs a respawn leaves both and   *)
(* visits no car, also when its time exceeds the next decision time; the   *)
(* key toggle leaves both.                                                 *)
C20_StepOnDueTicksWithoutRespawn ==
    [][ /\ FrameStep =>
              IF seconds' > dqn.seconds
              THEN /\ dqn'.step = dqn.step + 1
                   /\ dqn'.seconds = seconds' + STEP_DURATION
                   /\ ev'.should_act
                   /\ dqn.step > 0 =>
                         seconds' - (dqn.seconds - STEP_DURATION) > STEP_DURATION
              ELSE StepAndScheduleUnchanged /\ ~ev'.should_act
        /\ (SystemStep /\ ev'.kind = "respawn") =>
              /\ StepAndScheduleUnchanged
              /\ ev'.log = <<>> /\ ~ev'.should_act
              /\ dqn.respawn_at > 0 /\ seconds' > dqn.respawn_at
        /\ (FrameStep /\ dqn.respawn_at > 0) => seconds' <= dqn.respawn_at
        /\ ~SystemStep => StepAndScheduleUnchanged
        /\ dqn.step > 0 => dqn.seconds - STEP_DURATION <= seconds ]_vars

(* A respawn was performed at a time past the next decision time. *)
C20_Witness ==
    /\ ev.kind = "respawn" /\ seconds > dqn.seconds /\ dqn.step > 0
    /\ dqn.respawn_at = 0

-----------------------------------------------------------------------------
(* C21 as claimed: on a decision tick that starts with use_brain on, every *)
(* car that is not in contact with a non-road entity is visited, carries   *)
(* its observation and action, has its controls written and, if it holds a *)
(* carried observation, stores its transition, whether or not another car  *)
(* crashes in that tick and wherever the two stand in the visiting order.  *)
C21_CrashLeavesOthersProcessed ==
    [][ (FrameStep /\ ev'.should_act /\ use_brain) =>
          \A c \in DOMAIN cars \ ev'.touching :
             \E i \in DOMAIN ev'.log :
                /\ ev'.log[i].car = c
                /\ ev'.log[i].carried /\ ev'.log[i].wrote
                /\ ~AllZero(cars[c].prev_obs) => ev'.log[i].stored ]_vars

====
